---- MODULE Spec2Model ----
(***************************************************************************)
(* A model of the context store of grant-buddy (src/context_manager.py):   *)
(* the ContextManager class, which keeps one JSON document per workspace   *)
(* key under user_contexts/, and the operations on it; the default record  *)
(* of create_default_context; and the page, with its workspace key prompt  *)
(* and its Delete buttons.                                                 *)
(*                                                                         *)
(* Specifications: Spec (the operations of ContextManager, one after the   *)
(* other), SpecRace (two sessions inside save_context), SpecDefaults       *)
(* (create_default_context and in-place mutations of its results), SpecKey *)
(* (get_user_file_path) and SpecUI (the runs of the page's script).        *)
(*                                                                         *)
(* Python values are modelled as records of one shape, [t, s, items]:      *)
(*   a str   is [t |-> "str",  s |-> the text,  items |-> <<>>]            *)
(*   None    is [t |-> "none", s |-> "",        items |-> <<>>]            *)
(*   a list  is [t |-> "list", s |-> "",        items |-> its elements]    *)
(*   a dict  is [t |-> "dict", s |-> "",        items |-> its entries],    *)
(*           in insertion order, an entry being                            *)
(*           [t |-> "member", s |-> key, items |-> <<value>>].             *)
(* JSON text is modelled as its sequence of tokens [t, s] (white space and *)
(* indentation are not significant to json.load and are left out).         *)
(***************************************************************************)
EXTENDS Naturals, Sequences, FiniteSets, TLC

VARIABLES files, now, ops, last, prev, saved, pc, args, loaded, hist,
          heap, records, heap_before, touched, derived,
          session_state, rendered, trail, run

vars == <<files, now, ops, last, prev, saved, pc, args, loaded, hist,
          heap, records, heap_before, touched, derived,
          session_state, rendered, trail, run>>

\* The state of the two sessions that call save_context at the same time.
raceVars == <<pc, args, loaded, hist>>

\* The objects of the process (DEFAULT_PREFERRED_CRITERIA and what
\* create_default_context has returned), and the mutations made to them.
heapVars == <<heap, records, heap_before, touched>>

\* The calls of get_user_file_path made so far, with their results.
keyVars == <<derived>>

\* A browser session of the page: st.session_state, the widgets the last run
\* of the script has put on the page, and the runs made so far.
uiVars == <<session_state, rendered, trail, run>>

(***************************************************************************)
(* Bounds of the model.                                                    *)
(***************************************************************************)
\* The clock takes the values 0..MaxClock.
MaxClock == 1
\* At most MaxOps repository operations are performed in one behaviour.
MaxOps == 2
\* At most MaxRecords calls of create_default_context are made.
MaxRecords == 2
\* At most MaxMutations in-place mutations are made to their results.
MaxMutations == 2
\* At most MaxCalls calls of get_user_file_path are made.
MaxCalls == 4

(***************************************************************************)
(* Python values.                                                          *)
(***************************************************************************)
PyStr(text) == [t |-> "str", s |-> text, items |-> <<>>]

PyNone == [t |-> "none", s |-> "", items |-> <<>>]

PyList(xs) == [t |-> "list", s |-> "", items |-> xs]

PyDict(ms) == [t |-> "dict", s |-> "", items |-> ms]

Member(k, v) == [t |-> "member", s |-> k, items |-> <<v>>]

EmptyDict == PyDict(<<>>)

\* bool(v): the truth value Python gives a value in "if v" and "not v".
Truthy(v) ==
    CASE v.t = "str" -> v.s # ""
      [] v.t = "none" -> FALSE
      [] OTHER -> Len(v.items) > 0

IsDict(v) == v.t = "dict"

\* k in d
DictHas(d, k) == \E i \in 1..Len(d.items) : d.items[i].s = k

\* d.get(k, default)
DictGetOr(d, k, default) ==
    IF DictHas(d, k)
    THEN d.items[CHOOSE i \in 1..Len(d.items) : d.items[i].s = k].items[1]
    ELSE default

\* d.get(k)
DictGet(d, k) == DictGetOr(d, k, PyNone)

\* d[k] = v: a present key keeps its place, a new key is added at the end.
DictSet(d, k, v) ==
    IF DictHas(d, k)
    THEN PyDict([i \in 1..Len(d.items) |->
                   IF d.items[i].s = k THEN Member(k, v) ELSE d.items[i]])
    ELSE PyDict(Append(d.items, Member(k, v)))

\* del d[k]
DictDel(d, k) == PyDict(SelectSeq(d.items, LAMBDA m : m.s # k))

\* list(d.keys())
DictKeys(d) == [i \in 1..Len(d.items) |-> d.items[i].s]

KeySet(d) == {d.items[i].s : i \in 1..Len(d.items)}

(***************************************************************************)
(* JSON text: json.dumps / json.dump and json.loads / json.load.           *)
(***************************************************************************)
Tok(kind, text) == [t |-> kind, s |-> text]

LBrace == Tok("{", "")
RBrace == Tok("}", "")
LBracket == Tok("[", "")
RBracket == Tok("]", "")
Colon == Tok(":", "")
Comma == Tok(",", "")

RECURSIVE json_dumps(_), DumpItems(_, _), DumpMembers(_, _)

\* json.dumps(v, indent=2), as tokens.
json_dumps(v) ==
    CASE v.t = "str" -> <<Tok("str", v.s)>>
      [] v.t = "none" -> <<Tok("null", "")>>
      [] v.t = "list" -> <<LBracket>> \o DumpItems(v.items, 1) \o <<RBracket>>
      [] OTHER -> <<LBrace>> \o DumpMembers(v.items, 1) \o <<RBrace>>

DumpItems(xs, i) ==
    IF i > Len(xs) THEN <<>>
    ELSE (IF i > 1 THEN <<Comma>> ELSE <<>>)
         \o json_dumps(xs[i]) \o DumpItems(xs, i + 1)

DumpMembers(ms, i) ==
    IF i > Len(ms) THEN <<>>
    ELSE (IF i > 1 THEN <<Comma>> ELSE <<>>)
         \o <<Tok("str", ms[i].s), Colon>> \o json_dumps(ms[i].items[1])
         \o DumpMembers(ms, i + 1)

\* The result of a failed parse (json.JSONDecodeError).
ParseFail == [ok |-> FALSE, val |-> PyNone, next |-> 0]

ParseOk(v, n) == [ok |-> TRUE, val |-> v, next |-> n]

TokAt(toks, i) == IF i <= Len(toks) THEN toks[i] ELSE Tok("eof", "")

RECURSIVE ParseValue(_, _), ParseItems(_, _, _), ParseMembers(_, _, _)

\* The JSON value that starts at token i, and the position after it.
ParseValue(toks, i) ==
    LET tk == TokAt(toks, i) IN
    CASE tk.t = "str" -> ParseOk(PyStr(tk.s), i + 1)
      [] tk.t = "null" -> ParseOk(PyNone, i + 1)
      [] tk.t = "[" ->
            IF TokAt(toks, i + 1).t = "]" THEN ParseOk(PyList(<<>>), i + 2)
            ELSE ParseItems(toks, i + 1, <<>>)
      [] tk.t = "{" ->
            IF TokAt(toks, i + 1).t = "}" THEN ParseOk(EmptyDict, i + 2)
            ELSE ParseMembers(toks, i + 1, EmptyDict)
      [] OTHER -> ParseFail

ParseItems(toks, i, acc) ==
    LET r == ParseValue(toks, i) IN
    IF ~r.ok THEN ParseFail
    ELSE CASE TokAt(toks, r.next).t = "," ->
                  ParseItems(toks, r.next + 1, Append(acc, r.val))
           [] TokAt(toks, r.next).t = "]" ->
                  ParseOk(PyList(Append(acc, r.val)), r.next + 1)
           [] OTHER -> ParseFail

\* A repeated key keeps its first place and its last value, as dict() does.
ParseMembers(toks, i, acc) ==
    IF TokAt(toks, i).t # "str" \/ TokAt(toks, i + 1).t # ":" THEN ParseFail
    ELSE LET r == ParseValue(toks, i + 2) IN
         IF ~r.ok THEN ParseFail
         ELSE CASE TokAt(toks, r.next).t = "," ->
                       ParseMembers(toks, r.next + 1,
                                    DictSet(acc, toks[i].s, r.val))
                [] TokAt(toks, r.next).t = "}" ->
                       ParseOk(DictSet(acc, toks[i].s, r.val), r.next + 1)
                [] OTHER -> ParseFail

\* json.loads(text): [ok, val]; ok is FALSE where json.JSONDecodeError is
\* raised (no value, or extra data after the value).
json_loads(toks) ==
    LET r == ParseValue(toks, 1) IN
    IF r.ok /\ r.next = Len(toks) + 1
    THEN [ok |-> TRUE, val |-> r.val]
    ELSE [ok |-> FALSE, val |-> PyNone]

(***************************************************************************)
(* The clock: datetime.now().isoformat().                                  *)
(***************************************************************************)
IsoTable ==
    <<"2026-01-01T00:00:00", "2026-01-01T00:00:01", "2026-01-01T00:00:02",
      "2026-01-01T00:00:03", "2026-01-01T00:00:04", "2026-01-01T00:00:05">>

\* The ISO-8601 text of clock value c.
IsoFormat(c) == IsoTable[c + 1]

Clock == 0..MaxClock

\* The clock value an ISO-8601 text of the table stands for; ISO texts of one
\* format order as their times do.
TimeOf(text) == CHOOSE c \in 0..(Len(IsoTable) - 1) : IsoTable[c + 1] = text

(***************************************************************************)
(* Workspace keys and the tenant documents.                                *)
(***************************************************************************)
WorkspaceKeys == {"", "alice", "bob"}

\* The workspace keys get_workspace_key lets through: the non-empty ones.
Tenants == WorkspaceKeys \ {""}

\* hashlib.sha256(workspace_key.encode()).hexdigest()[:16]
Sha256Hex16(workspace_key) ==
    CASE workspace_key = "" -> "e3b0c44298fc1c14"
      [] workspace_key = "alice" -> "2bd806c97f0e00af"
      [] workspace_key = "bob" -> "81b637d8fcd2c6da"

\* ContextManager.get_user_file_path: the file name inside user_contexts/.
get_user_file_path(workspace_key) == Sha256Hex16(workspace_key)

FilePaths == {get_user_file_path(w) : w \in WorkspaceKeys}

NoFile == [exists |-> FALSE, text |-> <<>>]

FileOf(text) == [exists |-> TRUE, text |-> text]

\* ContextManager.load_contexts
load_contexts(fs, workspace_key) ==
    IF workspace_key = "" THEN EmptyDict
    ELSE LET f == fs[get_user_file_path(workspace_key)] IN
         IF f.exists
         THEN LET r == json_loads(f.text) IN
              IF r.ok THEN r.val ELSE EmptyDict
         ELSE EmptyDict

\* Mutant of save_contexts: the text is written to one fixed file, whatever
\* the workspace key.
save_contexts_one_file(fs, contexts, workspace_key) ==
    IF workspace_key = "" THEN fs
    ELSE [fs EXCEPT ![get_user_file_path("alice")] = FileOf(json_dumps(contexts))]

\* Mutant of save_contexts: the file is opened to append ("a"), not to write.
save_contexts_appends(fs, contexts, workspace_key) ==
    IF workspace_key = "" THEN fs
    ELSE [fs EXCEPT ![get_user_file_path(workspace_key)] =
                        FileOf(@.text \o json_dumps(contexts))]

\* ContextManager.save_contexts: the files after it.
save_contexts(fs, contexts, workspace_key) ==
    IF workspace_key = "" THEN fs
    ELSE [fs EXCEPT ![get_user_file_path(workspace_key)] =
                        FileOf(json_dumps(contexts))]

\* ContextManager.get_context_names
get_context_names(fs, workspace_key) == DictKeys(load_contexts(fs, workspace_key))

\* ContextManager.get_context
get_context(fs, name, workspace_key) ==
    DictGet(load_contexts(fs, workspace_key), name)

\* Mutant of Stamped: last_updated is set only where the record has none
\* (setdefault for the assignment).
Stamped_setdefault(context_data, c) ==
    IF DictHas(context_data, "last_updated") THEN context_data
    ELSE DictSet(context_data, "last_updated", PyStr(IsoFormat(c)))

\* The record save_context stores: context_data["last_updated"] = now.
Stamped(context_data, c) ==
    DictSet(context_data, "last_updated", PyStr(IsoFormat(c)))

\* Mutant of save_context_store: the record is stored in a new collection, not
\* in the loaded one.
save_context_store_alone(fs, contexts, name, context_data, workspace_key, c) ==
    save_contexts(fs, DictSet(EmptyDict, name, Stamped(context_data, c)),
                  workspace_key)

RECURSIVE DictUpdateFrom(_, _, _)

\* d.update(e), from the i-th entry of e on.
DictUpdateFrom(d, e, i) ==
    IF i > Len(e.items) THEN d
    ELSE DictUpdateFrom(DictSet(d, e.items[i].s, e.items[i].items[1]), e, i + 1)

\* Mutant of save_context_store: the record is merged into the record stored
\* under the name (contexts[name].update(context_data)), where there is one.
save_context_store_merges(fs, contexts, name, context_data, workspace_key, c) ==
    save_contexts(fs,
                  DictSet(contexts, name,
                          DictUpdateFrom(IF IsDict(DictGet(contexts, name))
                                         THEN DictGet(contexts, name)
                                         ELSE EmptyDict,
                                         Stamped(context_data, c), 1)),
                  workspace_key)

\* ContextManager.save_context from its second statement on, at clock value
\* c, contexts being what its load_contexts returned: the files after it.
save_context_store(fs, contexts, name, context_data, workspace_key, c) ==
    save_contexts(fs, DictSet(contexts, name, Stamped(context_data, c)),
                  workspace_key)

\* ContextManager.save_context at clock value c: the files after it.
save_context(fs, name, context_data, workspace_key, c) ==
    IF workspace_key = "" THEN fs
    ELSE save_context_store(fs, load_contexts(fs, workspace_key), name,
                            context_data, workspace_key, c)

\* Mutant of delete_context: save_contexts is called whether or not the name
\* was stored.
delete_context_always_saves(fs, name, workspace_key) ==
    IF workspace_key = "" THEN fs
    ELSE save_contexts(fs, DictDel(load_contexts(fs, workspace_key), name),
                       workspace_key)

\* ContextManager.delete_context: the files after it.
delete_context(fs, name, workspace_key) ==
    IF workspace_key = "" THEN fs
    ELSE LET contexts == load_contexts(fs, workspace_key) IN
         IF DictHas(contexts, name)
         THEN save_contexts(fs, DictDel(contexts, name), workspace_key)
         ELSE fs

NoText == [some |-> FALSE, text |-> <<>>]

\* ContextManager.export_context: the text, or None.
export_context(fs, name, workspace_key) ==
    LET context == get_context(fs, name, workspace_key) IN
    IF Truthy(context) THEN [some |-> TRUE, text |-> json_dumps(context)]
    ELSE NoText

\* Mutant of ImportName: the document's company_name comes before
\* context_name.
ImportName_company_first(context_data, context_name) ==
    DictGetOr(context_data, "company_name",
              IF Truthy(context_name) THEN context_name
              ELSE PyStr("Imported Context"))

\* The name import_context saves under: context_name, or when that is None
\* or empty, context_data.get("company_name", "Imported Context").
ImportName(context_data, context_name) ==
    IF Truthy(context_name) THEN context_name
    ELSE DictGetOr(context_data, "company_name", PyStr("Imported Context"))

\* Mutant of import_context: without the test of workspace_key.
import_context_unguarded(fs, json_string, workspace_key, context_name, c) ==
    LET r == json_loads(json_string) IN
    IF ~r.ok THEN [ret |-> "False", files |-> fs]
    ELSE IF ~Truthy(context_name) /\ ~IsDict(r.val)
         THEN [ret |-> "AttributeError", files |-> fs]
    ELSE IF ~IsDict(r.val) THEN [ret |-> "TypeError", files |-> fs]
    ELSE [ret |-> "True",
          files |-> save_context(fs, ImportName(r.val, context_name).s, r.val,
                                 workspace_key, c)]

\* ContextManager.import_context at clock value c: what it returns ("True",
\* "False") or the exception that leaves it, and the files after it.  Only
\* json.JSONDecodeError is caught: .get on a value that is no dict raises
\* AttributeError, item assignment on one raises TypeError, and so does a
\* name that cannot be a dict key.
import_context(fs, json_string, workspace_key, context_name, c) ==
    IF workspace_key = "" THEN [ret |-> "False", files |-> fs]
    ELSE LET r == json_loads(json_string) IN
         IF ~r.ok THEN [ret |-> "False", files |-> fs]
         ELSE IF ~Truthy(context_name) /\ ~IsDict(r.val)
              THEN [ret |-> "AttributeError", files |-> fs]
         ELSE IF ~IsDict(r.val) THEN [ret |-> "TypeError", files |-> fs]
         ELSE LET name == ImportName(r.val, context_name) IN
              IF name.t # "str" THEN [ret |-> "TypeError", files |-> fs]
              ELSE [ret |-> "True",
                    files |-> save_context(fs, name.s, r.val, workspace_key, c)]

(***************************************************************************)
(* The inputs of the operations.                                           *)
(***************************************************************************)
Names == {"Acme Corp", "X"}

ImportedContext == "Imported Context"

\* The criteria the editor builds from its four text areas (updated_criteria).
Criteria(strong_yes) ==
    PyDict(<<Member("strong_yes", PyList(strong_yes)),
             Member("conditional_yes",
                    PyDict(<<Member("technical_systems", PyList(<<>>)),
                             Member("sociotech_modeling", PyList(<<>>))>>)),
             Member("strong_no", PyList(<<>>))>>)

\* The record the editor saves (updated): it has no created field.
EditorRecord(company_name) ==
    PyDict(<<Member("company_name", PyStr(company_name)),
             Member("company_context", PyStr("context")),
             Member("preferred_grant_criteria", Criteria(<<PyStr("SBIR")>>))>>)

\* A record of the five fields create_default_context gives a record, made at
\* clock value c.
FullRecord(company_name, c) ==
    PyDict(<<Member("company_name", PyStr(company_name)),
             Member("company_context", PyStr("")),
             Member("preferred_grant_criteria", Criteria(<<>>)),
             Member("created", PyStr(IsoFormat(c))),
             Member("last_updated", PyStr(IsoFormat(c)))>>)

\* The calls of save_context: the editor's, which saves its record under the
\* record's company_name, and calls with a record that carries a created and
\* a last_updated field.
SaveCalls ==
    {<<n, EditorRecord(n)>> : n \in Names}
        \cup {<<"Acme Corp", FullRecord("Acme Corp", c)>> : c \in Clock}

\* 'not valid json'
NotValidJson == <<Tok("word", "not"), Tok("word", "valid"), Tok("word", "json")>>

\* '[]': JSON, but no object.
EmptyArray == <<LBracket, RBracket>>

\* '{"company_name": "X"}'
OnlyCompanyName == <<LBrace, Tok("str", "company_name"), Colon, Tok("str", "X"), RBrace>>

\* '{"company_context": "context"}'
NoCompanyName ==
    <<LBrace, Tok("str", "company_context"), Colon, Tok("str", "context"), RBrace>>

StoredNames == Names \cup {ImportedContext}

\* The documents export_context hands out in the state fs: that of every
\* stored name of every workspace.
Exported(fs) ==
    UNION {LET contexts == load_contexts(fs, w) IN
           {json_dumps(contexts.items[i].items[1]) :
               i \in {j \in 1..Len(contexts.items) :
                         Truthy(contexts.items[j].items[1])}} : w \in Tenants}

\* The calls of import_context: each fixed text with context_name None (the
\* default) and with a name, each exported document with context_name None,
\* and one call with the empty name.
ImportCalls(fs) ==
    ({NotValidJson, EmptyArray, OnlyCompanyName, NoCompanyName}
         \X {PyNone, PyStr("Acme Corp")})
        \cup (Exported(fs) \X {PyNone})
        \cup {<<OnlyCompanyName, PyStr("")>>}

(***************************************************************************)
(* The objects of the process.  A dict or a list is an object on the heap, *)
(* known by its address (its place in heap); what a key or an index holds  *)
(* is a cell: a str, or a reference to another object.  Two names for one  *)
(* address are two names for one object, and a mutation through either is  *)
(* seen through both.                                                      *)
(***************************************************************************)
Str(text) == [ref |-> FALSE, s |-> text, addr |-> 0]

Ref(a) == [ref |-> TRUE, s |-> "", addr |-> a]

ListObj(cells) == [t |-> "list", keys |-> <<>>, vals |-> cells]

DictObj(keys, cells) == [t |-> "dict", keys |-> keys, vals |-> cells]

\* The address of DEFAULT_PREFERRED_CRITERIA, and the heap after the module
\* is imported: the literal of the except branch.
DEFAULT_PREFERRED_CRITERIA == 1

DefaultHeap ==
    <<DictObj(<<"strong_yes", "conditional_yes", "strong_no">>,
              <<Ref(2), Ref(3), Ref(6)>>),
      ListObj(<<Str("SBIR"), Str("STTR"), Str("early-stage"), Str("Phase I"),
                Str("Phase II"), Str("emerging technology"),
                Str("small business innovation"),
                Str("commercialization pathway"), Str("technology de-risking"),
                Str("startup-friendly"), Str("NSF"), Str("pilot project"),
                Str("dual-use")>>),
      DictObj(<<"technical_systems", "sociotech_modeling">>, <<Ref(4), Ref(5)>>),
      ListObj(<<Str("resilient systems"), Str("zero-trust"), Str("autonomous"),
                Str("decision-making"), Str("secure data workflows"),
                Str("operational AI")>>),
      ListObj(<<Str("human decision-making"), Str("data-informed decisions"),
                Str("mission planning"), Str("workflow augmentation"),
                Str("data visualization")>>),
      ListObj(<<Str("urban planning"), Str("transportation modeling"),
                Str("community behavior analytics"),
                Str("infrastructure investment"),
                Str("socioeconomic planning")>>)>>

RECURSIVE DeepCopyAt(_, _, _), CopyCells(_, _, _, _, _)

\* copy.deepcopy(x, memo) of the object at address a: a new object, entered
\* in memo before its contents are copied, whose cells are the copies of the
\* cells of x; a str is its own copy.
DeepCopyAt(h, memo, a) ==
    IF memo[a] # 0 THEN [heap |-> h, memo |-> memo, addr |-> memo[a]]
    ELSE LET new == Len(h) + 1
             r == CopyCells(Append(h, [h[a] EXCEPT !.vals = <<>>]),
                            [memo EXCEPT ![a] = new], h[a].vals, 1, <<>>)
         IN [heap |-> [r.heap EXCEPT ![new].vals = r.cells],
             memo |-> r.memo, addr |-> new]

CopyCells(h, memo, cells, i, acc) ==
    IF i > Len(cells) THEN [heap |-> h, memo |-> memo, cells |-> acc]
    ELSE IF cells[i].ref
         THEN LET r == DeepCopyAt(h, memo, cells[i].addr) IN
              CopyCells(r.heap, r.memo, cells, i + 1, Append(acc, Ref(r.addr)))
         ELSE CopyCells(h, memo, cells, i + 1, Append(acc, cells[i]))

\* Mutant of deepcopy: copy.copy, a new object with the cells of the old one.
deepcopy_shallow(h, a) == [heap |-> Append(h, h[a]), addr |-> Len(h) + 1]

\* copy.deepcopy(x), x at address a: the heap after it and the address of the
\* copy.
deepcopy(h, a) ==
    LET r == DeepCopyAt(h, [x \in 1..Len(h) |-> 0], a) IN
    [heap |-> r.heap, addr |-> r.addr]

\* create_default_context() at clock value c: the heap after it and the
\* address of the dict it returns.
create_default_context(h, c) ==
    LET copy == deepcopy(h, DEFAULT_PREFERRED_CRITERIA) IN
    [heap |-> Append(copy.heap,
                     DictObj(<<"company_name", "company_context",
                               "preferred_grant_criteria", "created",
                               "last_updated">>,
                             <<Str(""), Str(""), Ref(copy.addr),
                               Str(IsoFormat(c)), Str(IsoFormat(c))>>)),
     addr |-> Len(copy.heap) + 1]

\* d[k] for the dict at address a (k a key of d).
CellAt(h, a, k) ==
    h[a].vals[CHOOSE i \in 1..Len(h[a].keys) : h[a].keys[i] = k]

\* record["preferred_grant_criteria"]: the address of a record's criteria.
CriteriaOf(h, record) == CellAt(h, record, "preferred_grant_criteria").addr

RECURSIVE ReachFrom(_, _, _)

\* The addresses of the objects that can be reached from those of todo.
ReachFrom(h, todo, seen) ==
    IF todo = {} THEN seen
    ELSE LET a == CHOOSE x \in todo : TRUE
             kids == {h[a].vals[i].addr :
                         i \in {j \in 1..Len(h[a].vals) : h[a].vals[j].ref}}
         IN ReachFrom(h, (todo \cup kids) \ (seen \cup {a}), seen \cup {a})

Reach(h, a) == ReachFrom(h, {a}, {})

RECURSIVE Resolve(_, _)

\* The value of the object at address a: what == compares and json.dumps
\* writes.
Resolve(h, a) ==
    LET cell(i) == IF h[a].vals[i].ref THEN Resolve(h, h[a].vals[i].addr)
                   ELSE PyStr(h[a].vals[i].s)
    IN IF h[a].t = "list"
       THEN PyList([i \in 1..Len(h[a].vals) |-> cell(i)])
       ELSE PyDict([i \in 1..Len(h[a].vals) |-> Member(h[a].keys[i], cell(i))])

\* x.append(s), x the list at address a.
ListAppend(h, a, text) == [h EXCEPT ![a].vals = Append(@, Str(text))]

\* x.pop(), x the list at address a (not empty).
ListPop(h, a) == [h EXCEPT ![a].vals = SubSeq(@, 1, Len(@) - 1)]

\* del d[k], d the dict at address a.
DictDelete(h, a, k) ==
    LET keep == {i \in 1..Len(h[a].keys) : h[a].keys[i] # k}
        ix == SelectSeq([i \in 1..Len(h[a].keys) |-> i], LAMBDA i : i \in keep)
    IN [h EXCEPT ![a] = DictObj([i \in 1..Len(ix) |-> h[a].keys[ix[i]]],
                                [i \in 1..Len(ix) |-> h[a].vals[ix[i]]])]

\* The process before create_default_context is first called.
HeapInit ==
    /\ heap = DefaultHeap
    /\ records = <<>>
    /\ heap_before = DefaultHeap
    /\ touched = <<>>

\* The objects of the process are left out where no operation reads them.
HeapIdle ==
    /\ heap = <<>>
    /\ records = <<>>
    /\ heap_before = <<>>
    /\ touched = <<>>

(***************************************************************************)
(* The calls of get_user_file_path.                                        *)
(***************************************************************************)
\* One call of get_user_file_path: whether it raised, and the path it gave.
\* The method has no raise statement, and "".encode() and sha256 of no bytes
\* are defined, so there is no key it raises on.
DeriveCall(workspace_key) ==
    [w |-> workspace_key, raised |-> FALSE,
     path |-> get_user_file_path(workspace_key)]

KeyInit == derived = <<>>

(***************************************************************************)
(* The page.  Streamlit runs the script from its top once for every event  *)
(* of the session (the page is opened, a text is entered, a box is chosen, *)
(* a button is clicked); st.session_state lasts from run to run, a button  *)
(* returns True only in the run its own click has caused, and the user can *)
(* act only on the widgets the last run has put on the page.  A run calls  *)
(* get_workspace_key, render_context_selector and render_context_editor    *)
(* with the selected name, in this order.  The events are those of the     *)
(* workspace key prompt, the selector, the two Delete flows, + New Context *)
(* and Cancel.                                                             *)
(***************************************************************************)
\* A text as typed: its pieces, each white space or a run of other characters.
TypedTexts ==
    {<<>>, <<" ">>, <<"alice">>, <<" ", "alice", " ">>, <<"bob">>}

IsSpace(piece) == piece = " "

RECURSIVE LStrip(_), RStrip(_), Join(_)

LStrip(text) ==
    IF text # <<>> /\ IsSpace(Head(text)) THEN LStrip(Tail(text)) ELSE text

RStrip(text) ==
    IF text # <<>> /\ IsSpace(text[Len(text)])
    THEN RStrip(SubSeq(text, 1, Len(text) - 1))
    ELSE text

\* str.strip()
Strip(text) == RStrip(LStrip(text))

\* The str of a typed text.
Join(text) == IF text = <<>> THEN "" ELSE Head(text) \o Join(Tail(text))

\* st.session_state.  A flag that is read with .get(flag, False) only is
\* FALSE while it is not set; context_selector is "" while it is not set.
FreshSession ==
    [has_workspace_key |-> FALSE, workspace_key |-> "",
     confirm_delete |-> FALSE, confirm_editor_delete |-> FALSE,
     creating_new_context |-> FALSE, editing_context |-> FALSE,
     context_selector |-> ""]

\* An event of the session: the widget acted on ("none": the page is opened
\* or run again with no button clicked), the texts of the two key inputs, and
\* the option chosen in the selectbox.
Event(widget, key_1, key_2, choice) ==
    [widget |-> widget, key_1 |-> key_1, key_2 |-> key_2, choice |-> choice]

NoEvent == Event("none", <<>>, <<>>, "")

\* st.button(label, key=key) in the run caused by event ev.
Button(ev, key) == ev.widget = key

GateWidgets == {"Workspace Key", "Confirm Workspace Key", "Access Workspace"}

\* Mutant of get_workspace_key: without the elif that compares the two
\* entries.
get_workspace_key_unconfirmed(ss, ev) ==
    LET ss1 == IF ss.has_workspace_key THEN ss
               ELSE [ss EXCEPT !.has_workspace_key = TRUE, !.workspace_key = ""]
    IN IF ~Truthy(PyStr(ss1.workspace_key))
       THEN IF Button(ev, "Access Workspace") /\ Truthy(PyStr(Join(Strip(ev.key_1))))
            THEN [ss |-> [ss1 EXCEPT !.workspace_key = Join(Strip(ev.key_1))],
                  outcome |-> "rerun", key |-> "", widgets |-> GateWidgets]
            ELSE [ss |-> ss1, outcome |-> "stop", key |-> "", widgets |-> GateWidgets]
       ELSE [ss |-> ss1, outcome |-> "return", key |-> ss1.workspace_key,
             widgets |-> {}]

\* get_workspace_key() in the run caused by ev: the session state after it,
\* how it ends (it returns key, or st.stop() or st.rerun() ends the run) and
\* the widgets it puts on the page.
get_workspace_key(ss, ev) ==
    LET ss1 == IF ss.has_workspace_key THEN ss
               ELSE [ss EXCEPT !.has_workspace_key = TRUE, !.workspace_key = ""]
    IN IF ~Truthy(PyStr(ss1.workspace_key))
       THEN IF /\ Button(ev, "Access Workspace")
               /\ Truthy(PyStr(Join(Strip(ev.key_1))))
               /\ Join(Strip(ev.key_1)) = Join(Strip(ev.key_2))
            THEN [ss |-> [ss1 EXCEPT !.workspace_key = Join(Strip(ev.key_1))],
                  outcome |-> "rerun", key |-> "", widgets |-> GateWidgets]
            ELSE [ss |-> ss1, outcome |-> "stop", key |-> "", widgets |-> GateWidgets]
       ELSE [ss |-> ss1, outcome |-> "return", key |-> ss1.workspace_key,
             widgets |-> {}]

\* What a part of the script leaves: the session state, the files, the value
\* it returns, the widgets and the selectbox options it has put on the page,
\* the calls of delete_context it has made, and whether st.rerun() ended it.
Out(ss, fs, selected, widgets, options, deleted, rerun) ==
    [ss |-> ss, files |-> fs, selected |-> selected, widgets |-> widgets,
     options |-> options, deleted |-> deleted, rerun |-> rerun]

\* if st.button("+ New Context"): ...
NewContextClicked(ss, ev) ==
    IF Button(ev, "+ New Context")
    THEN [ss EXCEPT !.creating_new_context = TRUE, !.editing_context = TRUE]
    ELSE ss

\* The Delete button with its confirmation, as both the selector (flag
\* confirm_delete, keys quick_delete, confirm_yes, confirm_no) and the editor
\* (confirm_editor_delete, editor_delete, editor_confirm_yes,
\* editor_confirm_no) have it; flag is the value of the confirm flag, and the
\* result gives its new value.
DeleteFlow(flag, fs, name, workspace_key, ev, delete, yes, no) ==
    IF Button(ev, delete)
    THEN IF ~flag
         THEN IF Button(ev, yes)
              THEN [flag |-> FALSE,
                    files |-> delete_context(fs, name, workspace_key),
                    widgets |-> {delete, yes},
                    deleted |-> <<<<name, workspace_key>>>>, rerun |-> TRUE]
              ELSE IF Button(ev, no)
                   THEN [flag |-> FALSE, files |-> fs,
                         widgets |-> {delete, yes, no},
                         deleted |-> <<>>, rerun |-> TRUE]
                   ELSE [flag |-> TRUE, files |-> fs,
                         widgets |-> {delete, yes, no},
                         deleted |-> <<>>, rerun |-> FALSE]
         ELSE [flag |-> FALSE, files |-> fs, widgets |-> {delete},
               deleted |-> <<>>, rerun |-> FALSE]
    ELSE [flag |-> flag, files |-> fs, widgets |-> {delete},
          deleted |-> <<>>, rerun |-> FALSE]

\* The end of render_context_selector: selected is the option the selectbox
\* shows, d what the Delete button and its confirmation have done.
SelectorOut(ss, selected, context_names, d) ==
    Out([ss EXCEPT !.confirm_delete = d.flag], d.files, PyStr(selected),
        {"context_selector", "+ New Context"} \cup d.widgets, context_names,
        d.deleted, d.rerun)

\* render_context_selector from the selectbox on: the selectbox shows the
\* option stored under its key, or the first option when that is none of the
\* options.
SelectorChoice(ss, fs, ev, context_names, selected) ==
    IF Truthy(PyStr(selected))
    THEN SelectorOut(NewContextClicked([ss EXCEPT !.context_selector = selected], ev),
                     selected, context_names,
                     DeleteFlow(ss.confirm_delete, fs, selected, ss.workspace_key,
                                ev, "quick_delete", "confirm_yes", "confirm_no"))
    ELSE Out(NewContextClicked([ss EXCEPT !.context_selector = selected], ev), fs,
             PyStr(selected), {"context_selector", "+ New Context"},
             context_names, <<>>, FALSE)

\* render_context_selector after its first two statements, context_names
\* being what get_context_names has returned.
SelectorNames(ss, fs, ev, context_names) ==
    IF context_names = <<>>
    THEN Out(NewContextClicked(ss, ev), fs, PyNone, {"+ New Context"}, <<>>,
             <<>>, FALSE)
    ELSE SelectorChoice(ss, fs, ev, context_names,
                        IF \E i \in 1..Len(context_names) :
                               context_names[i] = ss.context_selector
                        THEN ss.context_selector
                        ELSE context_names[1])

\* render_context_selector(context_manager) in the run caused by ev.
render_context_selector(ss, fs, ev) ==
    SelectorNames(ss, fs, ev, get_context_names(fs, ss.workspace_key))

\* The end of render_context_editor where the Delete button is shown:
\* return context_manager.get_context(context_name, workspace_key).
EditorOut(ss, context_name, d) ==
    Out([ss EXCEPT !.confirm_editor_delete = d.flag], d.files,
        get_context(d.files, context_name.s, ss.workspace_key),
        d.widgets, <<>>, d.deleted, d.rerun)

\* render_context_editor(context_manager, context_name) in the run caused by
\* ev.
render_context_editor(ss, fs, context_name, ev) ==
    IF ~ss.creating_new_context /\ Truthy(context_name)
    THEN EditorOut(ss, context_name,
                   DeleteFlow(ss.confirm_editor_delete, fs, context_name.s,
                              ss.workspace_key, ev, "editor_delete",
                              "editor_confirm_yes", "editor_confirm_no"))
    ELSE IF ss.creating_new_context
         THEN IF Button(ev, "Cancel")
              THEN Out([ss EXCEPT !.creating_new_context = FALSE], fs, PyNone,
                       {"Cancel"}, <<>>, <<>>, TRUE)
              ELSE Out(ss, fs,
                       IF Truthy(context_name)
                       THEN get_context(fs, context_name.s, ss.workspace_key)
                       ELSE PyNone,
                       {"Cancel"}, <<>>, <<>>, FALSE)
         ELSE Out(ss, fs, PyNone, {}, <<>>, <<>>, FALSE)

\* How get_workspace_key has ended in a run.
Gate(g) == [outcome |-> g.outcome, key |-> g.key]

\* A run after render_context_selector (s) and render_context_editor (e).
PassEditor(g, s, e) ==
    [out |-> Out(e.ss, e.files, e.selected, s.widgets \cup e.widgets, s.options,
                 s.deleted \o e.deleted, e.rerun),
     gate |-> Gate(g)]

\* A run after render_context_selector (s): an st.rerun() in it ends the run.
PassSelector(g, s, ev) ==
    IF s.rerun THEN [out |-> s, gate |-> Gate(g)]
    ELSE PassEditor(g, s, render_context_editor(s.ss, s.files, s.selected, ev))

\* A run after get_workspace_key (g): st.stop() or st.rerun() in it ends the
\* run.
PassGate(g, fs, ev) ==
    IF g.outcome # "return"
    THEN [out |-> Out(g.ss, fs, PyNone, g.widgets, <<>>, <<>>, g.outcome = "rerun"),
          gate |-> Gate(g)]
    ELSE PassSelector(g, render_context_selector(g.ss, fs, ev), ev)

\* One run of the script, caused by ev: what it leaves, and how
\* get_workspace_key ended in it.
PagePass(ss, fs, ev) == PassGate(get_workspace_key(ss, ev), fs, ev)

\* The event as the widgets take it before the run: a choice in the selectbox
\* is stored under the selectbox's key.
ApplyEvent(ss, ev) ==
    IF ev.widget = "context_selector" THEN [ss EXCEPT !.context_selector = ev.choice]
    ELSE ss

\* A run (p) and the run that follows it (q) after an st.rerun().
WithRerun(p, q) ==
    [out |-> [q.out EXCEPT !.deleted = p.out.deleted \o q.out.deleted],
     gates |-> <<p.gate, q.gate>>]

\* After the run p: an st.rerun() in it starts a run in which no button is
\* clicked.
Rerun(p) ==
    IF p.out.rerun THEN WithRerun(p, PagePass(p.out.ss, p.out.files, NoEvent))
    ELSE [out |-> p.out, gates |-> <<p.gate>>]

\* The run caused by ev, and after an st.rerun() the run that follows it.
PageRun(ss, fs, ev) == Rerun(PagePass(ApplyEvent(ss, ev), fs, ev))

NoRun == [event |-> NoEvent, before |-> FreshSession, gates |-> <<>>, deleted |-> <<>>]

Page(widgets, options) == [widgets |-> widgets, options |-> options]

\* A session that has not run the script yet.
UIInit ==
    /\ session_state = FreshSession
    /\ rendered = Page({}, <<>>)
    /\ trail = <<>>
    /\ run = NoRun

(***************************************************************************)
(* The state: the files of user_contexts/, the clock, the number of        *)
(* operations performed, the last operation with its arguments and its     *)
(* result, the files as they were before it, and the workspace keys under  *)
(* which a save or an import has ever been made.                           *)
(***************************************************************************)
Op(name, workspace_key, context_name, data, text, ret, c) ==
    [op |-> name, w |-> workspace_key, name |-> context_name, data |-> data,
     text |-> text, ret |-> ret, c |-> c]

\* user_contexts/ as an earlier session left it: alice saved two records in
\* the editor, bob has not saved anything.
InitialFiles ==
    save_context(
        save_context([k \in FilePaths |-> NoFile],
                     "Acme Corp", EditorRecord("Acme Corp"), "alice", 0),
        "X", EditorRecord("X"), "alice", 0)

\* The sessions of the concurrent saves, and a session's call of save_context.
Sessions == {"s1", "s2"}

NoCall == [w |-> "", name |-> "", data |-> PyNone]

\* The files, the clock and the history before the first operation, no session
\* being inside save_context.
StoreInit ==
    /\ files = InitialFiles
    /\ now = 0
    /\ ops = 0
    /\ last = Op("none", "", PyNone, PyNone, <<>>, "None", 0)
    /\ prev = files
    /\ saved = {"alice"}
    /\ pc = [s \in Sessions |-> "idle"]
    /\ args = [s \in Sessions |-> NoCall]
    /\ loaded = [s \in Sessions |-> EmptyDict]
    /\ hist = <<>>

Init ==
    /\ StoreInit
    /\ HeapIdle
    /\ KeyInit
    /\ UIInit

\* The process after the module is imported.
DefaultsInit ==
    /\ StoreInit
    /\ HeapInit
    /\ KeyInit
    /\ UIInit

\* save_context(name, context_data, workspace_key)
Save(workspace_key, name, context_data) ==
    /\ ops < MaxOps
    /\ files' = save_context(files, name, context_data, workspace_key, now)
    /\ last' = Op("save", workspace_key, PyStr(name), context_data, <<>>, "None", now)
    /\ prev' = files
    /\ saved' = saved \cup {workspace_key}
    /\ ops' = ops + 1
    /\ UNCHANGED <<now, raceVars, heapVars, keyVars, uiVars>>

\* save_context(name, context_data, workspace_key) with a storage failure
\* (disk full, a crash) inside save_contexts: open(file_path, "w") has emptied
\* the file and json.dump has written only part of the text, nothing (cut = 0)
\* or all but the closing brace (cut = 1).
SaveInterrupted(workspace_key, name, context_data, cut) ==
    /\ ops < MaxOps
    /\ LET path == get_user_file_path(workspace_key)
           whole == save_context(files, name, context_data, workspace_key, now)[path].text
           written == IF cut = 0 THEN <<>> ELSE SubSeq(whole, 1, Len(whole) - 1)
       IN files' = [files EXCEPT ![path] = FileOf(written)]
    /\ last' = Op("save_interrupted", workspace_key, PyStr(name), context_data, <<>>,
                  "OSError", now)
    /\ prev' = files
    /\ saved' = saved \cup {workspace_key}
    /\ ops' = ops + 1
    /\ UNCHANGED <<now, raceVars, heapVars, keyVars, uiVars>>

\* delete_context(name, workspace_key)
Delete(workspace_key, name) ==
    /\ ops < MaxOps
    /\ files' = delete_context(files, name, workspace_key)
    /\ last' = Op("delete", workspace_key, PyStr(name), PyNone, <<>>, "None", now)
    /\ prev' = files
    /\ UNCHANGED saved
    /\ ops' = ops + 1
    /\ UNCHANGED <<now, raceVars, heapVars, keyVars, uiVars>>

\* import_context(json_string, workspace_key, context_name)
Import(workspace_key, json_string, context_name) ==
    /\ ops < MaxOps
    /\ LET r == import_context(files, json_string, workspace_key, context_name, now) IN
         /\ files' = r.files
         /\ last' = Op("import", workspace_key, context_name, PyNone, json_string,
                       r.ret, now)
         /\ saved' = IF r.ret = "True" THEN saved \cup {workspace_key} ELSE saved
    /\ prev' = files
    /\ ops' = ops + 1
    /\ UNCHANGED <<now, raceVars, heapVars, keyVars, uiVars>>

\* datetime.now() moves on (as long as an operation is left to read it).
Tick ==
    /\ now < MaxClock
    /\ ops < MaxOps
    /\ now' = now + 1
    /\ UNCHANGED <<files, ops, last, prev, saved, raceVars, heapVars, keyVars,
                 uiVars>>

Next ==
    \/ \E w \in Tenants, call \in SaveCalls : Save(w, call[1], call[2])
    \/ Save("", "Acme Corp", EditorRecord("Acme Corp"))
    \/ \E w \in Tenants, cut \in 0..1 :
          SaveInterrupted(w, "Acme Corp", EditorRecord("Acme Corp"), cut)
    \/ \E w \in Tenants, n \in StoredNames : Delete(w, n)
    \/ Delete("", "Acme Corp")
    \/ \E w \in Tenants, call \in ImportCalls(files) : Import(w, call[1], call[2])
    \/ Import("", OnlyCompanyName, PyNone)
    \/ Tick

Spec == Init /\ [][Next]_vars

(***************************************************************************)
(* Two sessions in save_context at the same time.  Streamlit runs each     *)
(* session's script in a thread of its own, and save_context takes no      *)
(* lock: a session loads the collection (load_contexts), and later stores  *)
(* it with its record set (the stamp, the assignment and save_contexts).   *)
(***************************************************************************)
RaceCalls ==
    {[w |-> w, name |-> c[1], data |-> c[2]] : w \in Tenants, c \in SaveCalls}

RaceInit ==
    /\ files \in {[k \in FilePaths |-> NoFile], InitialFiles}
    /\ now = 0
    /\ ops = 0
    /\ last = Op("none", "", PyNone, PyNone, <<>>, "None", 0)
    /\ prev = files
    /\ saved = {}
    /\ pc = [s \in Sessions |-> "called"]
    /\ args \in [Sessions -> RaceCalls]
    /\ loaded = [s \in Sessions |-> EmptyDict]
    /\ hist = <<>>
    /\ HeapIdle
    /\ KeyInit
    /\ UIInit

\* contexts = self.load_contexts(workspace_key)
RaceLoad(s) ==
    /\ pc[s] = "called"
    /\ loaded' = [loaded EXCEPT ![s] = load_contexts(files, args[s].w)]
    /\ pc' = [pc EXCEPT ![s] = "loaded"]
    /\ hist' = Append(hist, <<"load", s>>)
    /\ UNCHANGED <<files, now, ops, last, prev, saved, args, heapVars, keyVars,
                   uiVars>>

\* context_data["last_updated"] = ...; contexts[name] = context_data;
\* self.save_contexts(contexts, workspace_key)
RaceStore(s) ==
    /\ pc[s] = "loaded"
    /\ files' = save_context_store(files, loaded[s], args[s].name, args[s].data,
                                   args[s].w, now)
    /\ pc' = [pc EXCEPT ![s] = "done"]
    /\ hist' = Append(hist, <<"store", s>>)
    /\ UNCHANGED <<now, ops, last, prev, saved, args, loaded, heapVars,
                   keyVars, uiVars>>

RaceNext ==
    \/ \E s \in Sessions : RaceLoad(s)
    \/ \E s \in Sessions : RaceStore(s)
    \/ Tick

SpecRace == RaceInit /\ [][RaceNext]_vars

(***************************************************************************)
(* What the claims speak of.                                               *)
(***************************************************************************)
\* The last operation was op, under a non-empty workspace key.
Did(op) == last.op = op /\ last.w \in Tenants

\* What workspace w sees of the files fs: its names and every record.
View(fs, w) ==
    LET contexts == load_contexts(fs, w) IN
    <<DictKeys(contexts), [n \in StoredNames |-> DictGet(contexts, n)]>>

PathOf(w) == get_user_file_path(w)

\* The document of workspace w exists in fs and does not parse.
Corrupted(fs, w) == fs[PathOf(w)].exists /\ ~json_loads(fs[PathOf(w)].text).ok

\* Field f of record r, None where r has no such field.
Field(r, f) == DictGet(r, f)

(***************************************************************************)
(* C1  Tenant isolation.                                                   *)
(***************************************************************************)
\* C1: an operation performed under workspace key w1 leaves what every
\* workspace key w2 with another derived key sees (its names, and the record
\* under every name) as it was before the operation, so by induction any
\* sequence of them does; and a workspace key under whose derived key nothing
\* was ever saved lists no names.
C1_TenantIsolation ==
    /\ \A w2 \in Tenants :
          PathOf(w2) # PathOf(last.w) => View(files, w2) = View(prev, w2)
    /\ \A w2 \in Tenants :
          (\A w1 \in saved : PathOf(w1) # PathOf(w2))
              => get_context_names(files, w2) = <<>>

\* C1 witness: an operation under one workspace key has changed that key's
\* document while another workspace key holds records.
C1_Witness ==
    /\ last.op \in {"save", "delete", "import"}
    /\ last.w \in Tenants
    /\ files # prev
    /\ \E w2 \in Tenants : w2 # last.w /\ get_context_names(files, w2) # <<>>

(***************************************************************************)
(* C2  Import of a malformed payload.                                      *)
(***************************************************************************)
\* The text parses as a structured record document: it is JSON and an object.
IsRecordDocument(text) == json_loads(text).ok /\ IsDict(json_loads(text).val)

\* C2 (as claimed): an import of a text that does not parse as a structured
\* record document returns False, raises nothing and leaves every document as
\* it was, with or without context_name.
C2_MalformedImportReturnsFalse ==
    (last.op = "import" /\ ~IsRecordDocument(last.text))
        => (last.ret = "False" /\ files = prev)

(***************************************************************************)
(* C3  Defaults at import.                                                 *)
(***************************************************************************)
\* C3 (as claimed): after a successful import of a document without a
\* preferred_grant_criteria field, the record stored under the import's name
\* has a preferred_grant_criteria whose strong_yes is the empty list.
C3_ImportFillsDefaults ==
    (Did("import") /\ last.ret = "True"
        /\ ~DictHas(json_loads(last.text).val, "preferred_grant_criteria"))
        => LET data == json_loads(last.text).val
               stored == get_context(files, ImportName(data, last.name).s, last.w)
           IN /\ IsDict(stored)
              /\ DictHas(stored, "preferred_grant_criteria")
              /\ IsDict(Field(stored, "preferred_grant_criteria"))
              /\ DictHas(Field(stored, "preferred_grant_criteria"), "strong_yes")
              /\ Field(Field(stored, "preferred_grant_criteria"), "strong_yes")
                     = PyList(<<>>)

(***************************************************************************)
(* C4  Save/get round trip.                                                *)
(***************************************************************************)
\* Records a and b agree on every field but last_updated (Python's ==, which
\* does not look at the order of the fields).
SameButLastUpdated(a, b) ==
    /\ IsDict(a) /\ IsDict(b)
    /\ KeySet(a) \ {"last_updated"} = KeySet(b) \ {"last_updated"}
    /\ \A f \in KeySet(a) \ {"last_updated"} : Field(a, f) = Field(b, f)

\* After save(n, r, w), get(n, w) is r but for last_updated, which is the
\* clock's time at the save.
RoundTrip ==
    Did("save") =>
        LET got == get_context(files, last.name.s, last.w) IN
        /\ SameButLastUpdated(got, last.data)
        /\ Field(got, "last_updated") = PyStr(IsoFormat(last.c))

\* A save or import over a stored record never lowers its last_updated.
LastUpdatedMonotonic ==
    (Did("save") \/ (Did("import") /\ last.ret = "True")) =>
        LET n == IF last.op = "save" THEN last.name.s
                 ELSE ImportName(json_loads(last.text).val, last.name).s
            before == get_context(prev, n, last.w)
            after == get_context(files, n, last.w)
        IN (IsDict(before) /\ DictHas(before, "last_updated"))
               => TimeOf(Field(after, "last_updated").s)
                      >= TimeOf(Field(before, "last_updated").s)

\* C4 (as claimed): the round trip, with the new last_updated at or after
\* r.created for every record r, and last_updated never decreasing.
C4_RoundTripAfterCreated ==
    /\ RoundTrip
    /\ (Did("save") /\ DictHas(last.data, "created")) =>
           last.c >= TimeOf(Field(last.data, "created").s)
    /\ LastUpdatedMonotonic

\* C4 (amended): the round trip, with last_updated the clock's time at the
\* save; that time is at or after r.created when r.created is a time the
\* clock had reached at the save (save_context does not read created), and
\* last_updated never decreases.
C4_RoundTrip ==
    /\ RoundTrip
    /\ (Did("save") /\ DictHas(last.data, "created")
            /\ TimeOf(Field(last.data, "created").s) <= last.c) =>
           TimeOf(Field(get_context(files, last.name.s, last.w), "last_updated").s)
               >= TimeOf(Field(last.data, "created").s)
    /\ LastUpdatedMonotonic

\* C4 witness: a record with a created field was saved over a stored record
\* of the same name after the clock had moved on.
C4_Witness ==
    /\ Did("save")
    /\ DictHas(last.data, "created")
    /\ TimeOf(Field(last.data, "created").s) <= last.c
    /\ IsDict(get_context(prev, last.name.s, last.w))
    /\ last.c > TimeOf(Field(get_context(prev, last.name.s, last.w), "last_updated").s)

(***************************************************************************)
(* C5  Export/import round trip.                                           *)
(***************************************************************************)
\* The last operation imported, with no context_name, the export of the
\* record under name n of workspace w into a workspace without a document.
ImportedExportOf(n, w) ==
    /\ Did("import")
    /\ last.name = PyNone
    /\ ~prev[PathOf(last.w)].exists
    /\ export_context(prev, n, w).some
    /\ last.text = export_context(prev, n, w).text

\* C5 (as claimed): importing the export of the record under n into a fresh
\* workspace succeeds and leaves there, under the same name n, a record with
\* the company_context and the preferred_grant_criteria of the original.
C5_ExportImportKeepsName ==
    \A w \in Tenants, n \in StoredNames :
        ImportedExportOf(n, w) =>
            LET original == get_context(prev, n, w)
                copy == get_context(files, n, last.w)
            IN /\ last.ret = "True"
               /\ IsDict(copy)
               /\ Field(copy, "company_context") = Field(original, "company_context")
               /\ Field(copy, "preferred_grant_criteria")
                      = Field(original, "preferred_grant_criteria")

(***************************************************************************)
(* C6  The empty workspace key.                                            *)
(***************************************************************************)
\* C6: with the empty workspace key, listing gives the empty list, get and
\* export give None, save and delete return without an error, import returns
\* False, and no document is made or changed: that of no workspace, and none
\* at the path derived from the empty key.
C6_EmptyKeyDegrades ==
    /\ get_context_names(files, "") = <<>>
    /\ \A n \in StoredNames :
          /\ get_context(files, n, "") = PyNone
          /\ ~export_context(files, n, "").some
    /\ ~files[PathOf("")].exists
    /\ last.w = "" =>
          /\ files = prev
          /\ last.op \in {"save", "delete"} => last.ret = "None"
          /\ last.op = "import" => last.ret = "False"

\* C6 witness: an import of a well-formed document under the empty key, made
\* while a workspace holds records.
C6_Witness ==
    /\ last.op = "import" /\ last.w = ""
    /\ IsRecordDocument(last.text)
    /\ \E w \in Tenants : get_context_names(files, w) # <<>>

(***************************************************************************)
(* C7  Delete.                                                             *)
(***************************************************************************)
\* C7: a delete of a stored name leaves the name absent and every other
\* record, and the order of the names, as they were; a delete of a name that
\* is not stored leaves the document exactly as it was (absent, or with the
\* text it had); a second delete of the same name changes nothing.
C7_Delete ==
    Did("delete") =>
        LET n == last.name.s
            before == load_contexts(prev, last.w)
            after == load_contexts(files, last.w)
        IN /\ DictHas(before, n) =>
                 /\ get_context(files, n, last.w) = PyNone
                 /\ files[PathOf(last.w)].exists
                 /\ after = DictDel(before, n)
                 /\ \A m \in KeySet(before) \ {n} : DictGet(after, m) = DictGet(before, m)
           /\ ~DictHas(before, n) => files = prev
           /\ \A w \in Tenants : w # last.w => files[PathOf(w)] = prev[PathOf(w)]
           /\ delete_context(files, n, last.w) = files

\* C7 witness: a stored name was deleted from a workspace that holds another
\* record.
C7_Witness ==
    /\ Did("delete")
    /\ DictHas(load_contexts(prev, last.w), last.name.s)
    /\ get_context_names(files, last.w) # <<>>

(***************************************************************************)
(* C8  The name an import stores under.                                    *)
(***************************************************************************)
\* C8: a successful import stores under context_name when one is given (a
\* non-empty one), else under the document's company_name, else under
\* "Imported Context", and changes the files exactly as save_context with that
\* name and the parsed document does: the stored record is the document with
\* last_updated set to the time of the import, whatever was stored there.
C8_ImportTarget ==
    (Did("import") /\ last.ret = "True") =>
        LET data == json_loads(last.text).val
            target == IF last.name # PyNone /\ last.name # PyStr("") THEN last.name.s
                      ELSE IF DictHas(data, "company_name")
                           THEN Field(data, "company_name").s
                           ELSE "Imported Context"
            before == load_contexts(prev, last.w)
            after == load_contexts(files, last.w)
        IN /\ files = save_context(prev, target, data, last.w, last.c)
           /\ DictGet(after, target)
                  = DictSet(data, "last_updated", PyStr(IsoFormat(last.c)))
           /\ \A m \in (KeySet(before) \cup KeySet(after)) \ {target} :
                  DictGet(after, m) = DictGet(before, m)

\* C8 witness: an import with a context_name that differs from the document's
\* company_name has replaced a stored record.
C8_Witness ==
    /\ Did("import") /\ last.ret = "True"
    /\ last.name = PyStr("Acme Corp")
    /\ Field(json_loads(last.text).val, "company_name") = PyStr("X")
    /\ IsDict(get_context(prev, "Acme Corp", last.w))

(***************************************************************************)
(* C9  A document that does not parse.                                     *)
(***************************************************************************)
\* C9: a document that exists and does not parse reads as the empty
\* collection (load, the names, every get), and a save over it leaves a
\* document that parses and holds exactly the saved record.
C9_CorruptedRecovery ==
    /\ \A w \in Tenants :
          Corrupted(files, w) =>
              /\ load_contexts(files, w) = EmptyDict
              /\ get_context_names(files, w) = <<>>
              /\ \A n \in StoredNames : get_context(files, n, w) = PyNone
    /\ (Did("save") /\ Corrupted(prev, last.w)) =>
          /\ ~Corrupted(files, last.w)
          /\ json_loads(files[PathOf(last.w)].text).val
                 = PyDict(<<Member(last.name.s,
                                   DictSet(last.data, "last_updated",
                                           PyStr(IsoFormat(last.c))))>>)

\* C9 witness: a save was made over a document that held part of a text.
C9_Witness ==
    /\ Did("save")
    /\ Corrupted(prev, last.w)
    /\ prev[PathOf(last.w)].text # <<>>

(***************************************************************************)
(* C10  Lost update.                                                       *)
(***************************************************************************)
\* The place of an event in hist.
At(kind, s) == CHOOSE i \in 1..Len(hist) : hist[i] = <<kind, s>>

BothDone == \A s \in Sessions : pc[s] = "done"

\* Both sessions save into one workspace, under different names.
SameTenantOtherNames ==
    args["s1"].w = args["s2"].w /\ args["s1"].name # args["s2"].name

\* Each session loaded before either stored.
Interleaved == \A s \in Sessions, u \in Sessions : At("load", s) < At("store", u)

\* One session had stored before the other loaded.
OneAfterTheOther ==
    \E s \in Sessions, u \in Sessions : At("store", s) < At("load", u)

\* The session that stored first, and the one that stored last.
FirstWriter == CHOOSE s \in Sessions : \A u \in Sessions : At("store", s) <= At("store", u)
SecondWriter == CHOOSE s \in Sessions : s # FirstWriter

\* C10: when two saves of different names into one workspace have both loaded
\* before either stores, the document in the end is the collection as it was
\* before them with only the second writer's record set: the first writer's
\* record is not in it (a name that was not stored is still not stored);
\* when one stored before the other loaded, both names are stored.
C10_LostUpdate ==
    (BothDone /\ SameTenantOtherNames) =>
        LET w == args["s1"].w
            before == load_contexts(prev, w)
            after == load_contexts(files, w)
            first == args[FirstWriter]
            second == args[SecondWriter]
        IN /\ Interleaved =>
                 /\ DictGet(after, first.name) = DictGet(before, first.name)
                 /\ ~DictHas(before, first.name) => ~DictHas(after, first.name)
                 /\ DictHas(after, second.name)
                 /\ SameButLastUpdated(DictGet(after, second.name), second.data)
                 /\ KeySet(after) = KeySet(before) \cup {second.name}
           /\ OneAfterTheOther =>
                 /\ DictHas(after, first.name) /\ DictHas(after, second.name)
                 /\ SameButLastUpdated(DictGet(after, first.name), first.data)
                 /\ SameButLastUpdated(DictGet(after, second.name), second.data)

\* C10 witness: both sessions loaded an empty collection before either stored,
\* and in the end the document holds the second writer's record alone.
C10_Witness ==
    /\ BothDone /\ SameTenantOtherNames /\ Interleaved
    /\ load_contexts(prev, args["s1"].w) = EmptyDict
    /\ get_context_names(files, args["s1"].w) = <<args[SecondWriter].name>>

(***************************************************************************)
(* create_default_context and its callers.  A caller holds the dict it was *)
(* given and may change the criteria in it in place: a keyword is appended *)
(* to or popped from one of the lists, a key is deleted from one of the    *)
(* dicts.                                                                  *)
(***************************************************************************)
\* records.append(create_default_context())
CreateDefault ==
    /\ Len(records) < MaxRecords
    /\ LET r == create_default_context(heap, now) IN
         /\ heap' = r.heap
         /\ heap_before' = r.heap
         /\ records' = Append(records, r.addr)
    /\ UNCHANGED <<touched, files, now, ops, last, prev, saved, raceVars, keyVars,
                   uiVars>>

\* The objects of the criteria of the i-th record.
CriteriaObjects(i) == Reach(heap, CriteriaOf(heap, records[i]))

\* An in-place mutation of the i-th record's criteria leaves the heap h.
Mutate(i, h) ==
    /\ Len(touched) < MaxMutations
    /\ heap' = h
    /\ heap_before' = heap
    /\ touched' = Append(touched, i)
    /\ UNCHANGED <<records, files, now, ops, last, prev, saved, raceVars, keyVars,
                   uiVars>>

\* x.append("quantum"), x a list of the i-th record's criteria.
AppendKeyword(i, a) ==
    /\ heap[a].t = "list"
    /\ Mutate(i, ListAppend(heap, a, "quantum"))

\* x.pop(), x a list of the i-th record's criteria.
PopKeyword(i, a) ==
    /\ heap[a].t = "list"
    /\ heap[a].vals # <<>>
    /\ Mutate(i, ListPop(heap, a))

\* del d[k], d a dict of the i-th record's criteria.
DeleteKey(i, a, k) ==
    /\ heap[a].t = "dict"
    /\ \E j \in 1..Len(heap[a].keys) : heap[a].keys[j] = k
    /\ Mutate(i, DictDelete(heap, a, k))

CriteriaKeys ==
    {"strong_yes", "conditional_yes", "strong_no", "technical_systems",
     "sociotech_modeling"}

NextDefaults ==
    \/ CreateDefault
    \/ \E i \in 1..Len(records) : \E a \in CriteriaObjects(i) : AppendKeyword(i, a)
    \/ \E i \in 1..Len(records) : \E a \in CriteriaObjects(i) : PopKeyword(i, a)
    \/ \E i \in 1..Len(records) : \E a \in CriteriaObjects(i) :
          \E k \in CriteriaKeys : DeleteKey(i, a, k)

SpecDefaults == DefaultsInit /\ [][NextDefaults]_vars

(***************************************************************************)
(* C11  Deep-copy isolation.                                               *)
(***************************************************************************)
\* The criteria of the i-th record in heap h, as a value.
CriteriaValue(h, i) == Resolve(h, CriteriaOf(h, records[i]))

\* C11: the criteria of a record create_default_context has returned share
\* no object with DEFAULT_PREFERRED_CRITERIA nor with the criteria of any
\* other record it has returned; DEFAULT_PREFERRED_CRITERIA has the value it
\* had when the module was imported; and an in-place mutation of one record's
\* criteria leaves the criteria of every other record as they were.
C11_DeepCopyIsolation ==
    /\ \A i \in 1..Len(records) :
          /\ CriteriaObjects(i) \cap Reach(heap, DEFAULT_PREFERRED_CRITERIA) = {}
          /\ \A j \in 1..Len(records) :
                i # j => CriteriaObjects(i) \cap CriteriaObjects(j) = {}
    /\ Resolve(heap, DEFAULT_PREFERRED_CRITERIA)
           = Resolve(DefaultHeap, DEFAULT_PREFERRED_CRITERIA)
    /\ touched # <<>> =>
          \A j \in 1..Len(records) :
              j # touched[Len(touched)] =>
                  CriteriaValue(heap, j) = CriteriaValue(heap_before, j)

\* C11 witness: a nested conditional_yes list of one record has been changed
\* in place while a second record is held.
C11_Witness ==
    /\ Len(records) = 2
    /\ touched # <<>>
    /\ LET i == touched[Len(touched)]
           nested(h) == Resolve(h, CellAt(h, CriteriaOf(h, records[i]),
                                          "conditional_yes").addr)
       IN /\ DictHas(CriteriaValue(heap, i), "conditional_yes")
          /\ DictHas(CriteriaValue(heap_before, i), "conditional_yes")
          /\ nested(heap) # nested(heap_before)

(***************************************************************************)
(* get_user_file_path, called with any workspace key.                      *)
(***************************************************************************)
\* get_user_file_path(workspace_key)
DeriveKey(workspace_key) ==
    /\ Len(derived) < MaxCalls
    /\ derived' = Append(derived, DeriveCall(workspace_key))
    /\ UNCHANGED <<files, now, ops, last, prev, saved, raceVars, heapVars, uiVars>>

NextKey == \E w \in WorkspaceKeys : DeriveKey(w)

SpecKey == Init /\ [][NextKey]_vars

(***************************************************************************)
(* C12  Key derivation as the strict boundary.                             *)
(***************************************************************************)
\* C12 (as claimed): every call of get_user_file_path with the empty
\* workspace key signals a failure and gives no path, and all calls with one
\* non-empty workspace key give the same path, without a failure.
C12_DeriveKeyStrict ==
    /\ \A i \in 1..Len(derived) :
          derived[i].w = "" => derived[i].raised
    /\ \A i \in 1..Len(derived), j \in 1..Len(derived) :
          (derived[i].w # "" /\ derived[i].w = derived[j].w) =>
              /\ ~derived[i].raised
              /\ derived[i].path = derived[j].path

(***************************************************************************)
(* C13  Save replaces one entry, and the life of a named record.           *)
(***************************************************************************)
\* The name the last operation stored under, "" where it stored nothing.
StoredUnder ==
    IF last.op = "save" THEN last.name.s
    ELSE IF last.op = "import" /\ last.ret = "True"
         THEN ImportName(json_loads(last.text).val, last.name).s
         ELSE ""

\* C13: save(n, r, w) with a non-empty w leaves under n exactly the fields of
\* r with last_updated set to the time of the save (no field of the record
\* stored under n before is carried over), leaves every other entry of w and
\* every other tenant's document as they were; and for every operation that
\* returns (a save, a delete, an import), a name that was stored and is not
\* any more was deleted by it, a name that was not stored and now is was
\* saved or imported by it, and a record that differs was saved or imported
\* over.
C13_SaveFrame ==
    /\ Did("save") =>
          LET n == last.name.s
              before == load_contexts(prev, last.w)
              after == load_contexts(files, last.w)
              entry == DictGet(after, n)
          IN /\ IsDict(entry)
             /\ KeySet(entry) = KeySet(last.data) \cup {"last_updated"}
             /\ \A f \in KeySet(last.data) \ {"last_updated"} :
                    Field(entry, f) = Field(last.data, f)
             /\ Field(entry, "last_updated") = PyStr(IsoFormat(last.c))
             /\ KeySet(after) = KeySet(before) \cup {n}
             /\ \A m \in KeySet(before) \ {n} : DictGet(after, m) = DictGet(before, m)
             /\ \A w \in Tenants \ {last.w} : files[PathOf(w)] = prev[PathOf(w)]
    /\ last.ret # "OSError" =>
          \A w \in Tenants :
              LET before == load_contexts(prev, w)
                  after == load_contexts(files, w)
              IN \A n \in KeySet(before) \cup KeySet(after) :
                     /\ (DictHas(before, n) /\ ~DictHas(after, n)) =>
                            (last.op = "delete" /\ last.w = w /\ last.name = PyStr(n))
                     /\ (DictGet(before, n) # DictGet(after, n) /\ DictHas(after, n)) =>
                            (last.w = w /\ StoredUnder = n)

\* C13 witness: a record without a created field was saved over a stored
\* record that has one, in a workspace that holds another record.
C13_Witness ==
    /\ Did("save")
    /\ IsDict(get_context(prev, last.name.s, last.w))
    /\ DictHas(get_context(prev, last.name.s, last.w), "created")
    /\ ~DictHas(last.data, "created")
    /\ KeySet(load_contexts(prev, last.w)) \ {last.name.s} # {}

(***************************************************************************)
(* C14  The shape of a stored record.                                      *)
(***************************************************************************)
\* The records of the document of workspace w.
RecordsOf(fs, w) ==
    LET contexts == load_contexts(fs, w) IN
    {contexts.items[i].items[1] : i \in 1..Len(contexts.items)}

\* C14 (as claimed): after any editor save, import or delete, every record of
\* every document has a created and a last_updated timestamp, created not
\* after last_updated, and the record the operation has stored has the time
\* of the operation as its last_updated.
C14_RecordShape ==
    last.op \in {"save", "import", "delete"} =>
        /\ \A w \in Tenants : \A r \in RecordsOf(files, w) :
               /\ IsDict(r)
               /\ DictHas(r, "created") /\ DictHas(r, "last_updated")
               /\ TimeOf(Field(r, "created").s) <= TimeOf(Field(r, "last_updated").s)
        /\ (last.w \in Tenants /\ StoredUnder # "") =>
               Field(get_context(files, StoredUnder, last.w), "last_updated")
                   = PyStr(IsoFormat(last.c))

(***************************************************************************)
(* C15  A record is stored under its company_name.                         *)
(***************************************************************************)
\* C15 (as claimed): in every document, the record stored under a name k has
\* k as its company_name.
C15_NameKey ==
    \A w \in Tenants :
        LET contexts == load_contexts(files, w) IN
        \A k \in KeySet(contexts) :
            /\ IsDict(DictGet(contexts, k))
            /\ Field(DictGet(contexts, k), "company_name") = PyStr(k)

(***************************************************************************)
(* The session of the page: one action for every event, which is the run   *)
(* of the script the event causes (with the run an st.rerun() adds).       *)
(***************************************************************************)
\* The texts the two key inputs can hold: they are on the page only while
\* the workspace key is asked for.
Texts(page) == IF "Workspace Key" \in page.widgets THEN TypedTexts ELSE {<<>>}

Buttons ==
    {"quick_delete", "confirm_yes", "confirm_no", "editor_delete",
     "editor_confirm_yes", "editor_confirm_no", "+ New Context", "Cancel"}

\* The state after the event ev, r being the run it has caused.
AfterRun(ev, r) ==
    /\ session_state' = r.out.ss
    /\ files' = r.out.files
    /\ rendered' = Page(r.out.widgets, r.out.options)
    /\ run' = [event |-> ev, before |-> session_state, gates |-> r.gates,
               deleted |-> r.out.deleted]

\* The event ev and the run it causes.
UIEvent(ev) ==
    /\ ev.widget = "none" \/ ev.widget \in rendered.widgets
    /\ AfterRun(ev, PageRun(session_state, files, ev))
    /\ trail' = (IF Len(trail) < 2 THEN trail ELSE Tail(trail))
                    \o <<[widget |-> ev.widget,
                          name |-> session_state.context_selector]>>
    /\ prev' = files
    /\ UNCHANGED <<now, ops, last, saved, raceVars, heapVars, keyVars>>

\* The page is opened, or a text is entered in a key input.
EnterText(key_1, key_2) == UIEvent(Event("none", key_1, key_2, ""))

\* A click on Access Workspace, the key inputs holding key_1 and key_2.
AccessWorkspace(key_1, key_2) == UIEvent(Event("Access Workspace", key_1, key_2, ""))

\* An option of the selectbox is chosen.
Choose(option) == UIEvent(Event("context_selector", <<>>, <<>>, option))

\* A click on a button.
Click(button) == UIEvent(Event(button, <<>>, <<>>, ""))

NextUI ==
    \/ \E key_1 \in Texts(rendered), key_2 \in Texts(rendered) :
          EnterText(key_1, key_2)
    \/ \E key_1 \in Texts(rendered), key_2 \in Texts(rendered) :
          AccessWorkspace(key_1, key_2)
    \/ \E i \in 1..Len(rendered.options) : Choose(rendered.options[i])
    \/ \E button \in Buttons : Click(button)

SpecUI == Init /\ [][NextUI]_vars

(***************************************************************************)
(* C16  The workspace key gate.                                            *)
(***************************************************************************)
\* C16: the session's workspace_key is empty until a run has been made; a
\* run that finds it empty leaves it non-empty only if the run is that of a
\* click on Access Workspace in which the first entry, stripped, is not empty
\* and equals the stripped second entry, and then the key is the stripped
\* first entry; get_workspace_key returns no empty key, and a run that ends
\* with the key empty has ended in st.stop(); a run that finds the key set
\* leaves it as it is.
C16_WorkspaceKeyGate ==
    /\ trail = <<>> => session_state.workspace_key = ""
    /\ (run.before.workspace_key = "" /\ session_state.workspace_key # "") =>
          /\ run.event.widget = "Access Workspace"
          /\ Strip(run.event.key_1) # <<>>
          /\ Strip(run.event.key_1) = Strip(run.event.key_2)
          /\ session_state.workspace_key = Join(Strip(run.event.key_1))
    /\ \A i \in 1..Len(run.gates) :
          run.gates[i].outcome = "return" => run.gates[i].key # ""
    /\ (run.gates # <<>> /\ session_state.workspace_key = "") =>
          run.gates[Len(run.gates)].outcome = "stop"
    /\ run.before.workspace_key # "" =>
          /\ session_state.workspace_key = run.before.workspace_key
          /\ run.gates[Len(run.gates)]
                 = [outcome |-> "return", key |-> run.before.workspace_key]

\* C16 witness: a click on Access Workspace with a first entry that has white
\* space around it and a second that has none has set the key, and the run
\* that followed has returned it.
C16_Witness ==
    /\ run.event.widget = "Access Workspace"
    /\ run.event.key_1 = <<" ", "alice", " ">>
    /\ run.event.key_2 = <<"alice">>
    /\ session_state.workspace_key = "alice"
    /\ run.gates = <<[outcome |-> "rerun", key |-> ""],
                     [outcome |-> "return", key |-> "alice"]>>

(***************************************************************************)
(* C17  The Delete confirmation.                                           *)
(***************************************************************************)
\* The last two events were clicks on first and then on second.
Clicked(first, second) ==
    Len(trail) = 2 /\ trail[1].widget = first /\ trail[2].widget = second

\* C17 (as claimed): delete_context is called only in the run of a click on
\* Yes, Delete that follows a click on Delete, and for the record selected
\* then; after a click on Delete and then on Yes, Delete the record is not
\* stored any more and the confirm flag is False; after a click on Delete and
\* then on Cancel the flag is False and no document has changed.
C17_DeleteConfirmation ==
    /\ \A i \in 1..Len(run.deleted) :
          /\ Clicked("quick_delete", "confirm_yes")
                 \/ Clicked("editor_delete", "editor_confirm_yes")
          /\ run.deleted[i] = <<trail[1].name, session_state.workspace_key>>
    /\ Clicked("quick_delete", "confirm_yes") =>
          /\ get_context(files, trail[1].name, session_state.workspace_key) = PyNone
          /\ ~session_state.confirm_delete
    /\ Clicked("editor_delete", "editor_confirm_yes") =>
          /\ get_context(files, trail[1].name, session_state.workspace_key) = PyNone
          /\ ~session_state.confirm_editor_delete
    /\ Clicked("quick_delete", "confirm_no") =>
          (~session_state.confirm_delete /\ files = prev)
    /\ Clicked("editor_delete", "editor_confirm_no") =>
          (~session_state.confirm_editor_delete /\ files = prev)

====
